---- MODULE Spec2Model ----
(***************************************************************************)
(* Model of sendrecv/gst-rust/src/main.rs: the signalling client of the    *)
(* gstwebrtc sendrecv demo.  Two threads touch the shared AppControl:      *)
(* the websocket thread (ws::connect runs the Handler callbacks on_open,   *)
(* on_message and on_close one after the other) and the media engine's     *)
(* thread (the webrtcbin callbacks on_negotiation_needed, on_offer_created *)
(* and send_ice_candidate_message).  Every lock().unwrap() section of the  *)
(* source is one atomic step; a handler that takes the lock several times  *)
(* is a sequence of steps and the other thread may run between them.       *)
(* A panic!, a failed assert_eq! or an unwrap of None/Err ends the         *)
(* process: fault names it and no step is taken afterwards.                *)
(***************************************************************************)
EXTENDS Integers, Sequences, FiniteSets, TLC

(* ------------------------------ bounds -------------------------------- *)
\* negotiation-needed events the media engine emits in one run
MaxNegotiations == 2
\* local candidates the media engine discovers in one run
MaxLocalCandidates == 1
\* candidate messages the remote peer sends in one run
MaxRemoteCandidates == 1
\* ids sampled at each end of the range of register_with_server's gen_range
IdSamples == 1

(* ------------------------------ AppState ------------------------------ *)
\* enum AppState with the discriminants the declaration gives it
Discriminant ==
  [ AppStateErr            |-> 1,
    ServerConnecting       |-> 1000,
    ServerConnectionError  |-> 1001,
    ServerConnected        |-> 1002,
    ServerRegistering      |-> 2000,
    ServerRegisteringError |-> 2001,
    ServerRegistered       |-> 2002,
    ServerClosed           |-> 2003,
    PeerConnecting         |-> 3000,
    PeerConnectionError    |-> 3001,
    PeerConnected          |-> 3002,
    PeerCallNegotiating    |-> 4000,
    PeerCallStarted        |-> 4001,
    PeerCallError          |-> 4002 ]

AppState == DOMAIN Discriminant

\* #[derive(PartialOrd)]: a < b on the enum
StateLt(a, b) == Discriminant[a] < Discriminant[b]

(* ------------------------------- texts -------------------------------- *)
\* A websocket text.  lit is the text cut into pieces (its concatenation is
\* the text) when it is not JSON; key is the single key of the JSON object
\* otherwise, with the fields of the object under that key.
Text(lit, key, type, sdp, candidate, mline) ==
  [ lit |-> lit, key |-> key, type |-> type, sdp |-> sdp,
    candidate |-> candidate, sdpMLineIndex |-> mline ]

Literal(lit) == Text(lit, "", "", "", "", 0)

\* json!({"sdp": {"type": t, "sdp": s}})
SdpText(t, s) == Text(<< >>, "sdp", t, s, "", 0)

\* json!({"ice": {"candidate": c, "sdpMLineIndex": i}})
IceText(c, i) == Text(<< >>, "ice", "", "", c, i)

\* msg_text == "HELLO"
IsHello(t) == t.lit = <<"HELLO">>

\* msg_text == "SESSION_OK"
IsSessionOk(t) == t.lit = <<"SESSION_OK">>

\* msg_text.starts_with("ERROR")
IsError(t) == Len(t.lit) >= 1 /\ t.lit[1] = "ERROR"

\* serde_json::from_str::<JsonMsg>(&msg_text) is Ok
Decodes(t) == t.key \in {"sdp", "ice"}

\* gst_sdp::SDPMessage::parse_buffer(sdp.as_bytes()) is Ok: an empty buffer
\* is refused, every other buffer is parsed leniently
ParseBuffer(sdp) == sdp # ""

\* format!("HELLO {}", our_id)
HelloText(our_id) == Literal(<<"HELLO ", ToString(our_id)>>)

\* format!("SESSION {}", peer_id)
SessionText(peer) == Literal(<<"SESSION ", peer>>)

\* the texts the server and the remote peer may send
Inbound ==
  { Literal(<<"HELLO">>), Literal(<<"SESSION_OK">>),
    Literal(<<"ERROR">>), Literal(<<"ERROR", " peer not found">>),
    Literal(<<"HELLO", " there">>),
    SdpText("answer", "v=0 a"), SdpText("answer", ""),
    SdpText("offer", "v=0 a"),
    IceText("candidate:1", 0),
    Text(<< >>, "bye", "", "", "", 0) }

\* --peer-id on the command line
PeerIds == {"alice", "bob"}

\* the SDP texts the media engine produces for an offer
OfferSdps == {"v=0 x", "v=0 y"}

\* the local candidates the media engine discovers
LocalCandidates == { <<"candidate:9", 0>> }

NoText == Literal(<< >>)

VARIABLES
  app_state,      \* AppControl.app_state
  peer_id,        \* AppControl.peer_id
  webrtc,         \* WsClient.webrtc: "None" or "Some"
  outbound,       \* the texts given to ws_sender.send, in order
  closes,         \* the calls of ws_sender.close
  channel,        \* the websocket: "connecting", "open", "closed"
  wsPc,           \* position of the websocket thread
  wsMsg,          \* the text on_message was last called with
  received,       \* the texts on_message was called with, counted
  our_id,         \* register_with_server's our_id
  error,          \* on_message's local error (ERROR branch)
  enPc,           \* position of the media engine's thread
  enOffer,        \* on_offer_created's offer (its SDP text)
  engine,         \* the media engine: what it was asked and what it emitted
  fault           \* the panic that ended the process, "none" before

vars == << app_state, peer_id, webrtc, outbound, closes, channel, wsPc, wsMsg,
           received, our_id, error, enPc, enOffer, engine, fault >>

wsVars == << wsPc, wsMsg, received >>
enVars == << enPc, enOffer >>

Running == fault = "none"

\* a panic: the process ends, nothing else changes
Panic(what) ==
  /\ fault' = what
  /\ UNCHANGED << app_state, peer_id, webrtc, outbound, closes, channel,
                  our_id, error, engine >>

(* -------------------------------- Init -------------------------------- *)
\* connect_to_websocket_server_async: the WsClient and the AppControl
Init ==
  /\ app_state = "ServerConnecting"
  /\ peer_id \in PeerIds
  /\ webrtc = "None"
  /\ outbound = << >>
  /\ closes = 0
  /\ channel = "connecting"
  /\ wsPc = "idle"
  /\ wsMsg = NoText
  /\ received = 0
  /\ our_id = 0
  /\ error = "none"
  /\ enPc = "idle"
  /\ enOffer = ""
  /\ engine = [ pipelines |-> 0, playing |-> FALSE, negotiations |-> 0,
                create_offers |-> 0, promises |-> 0, local_candidates |-> 0,
                local_descriptions |-> << >>, remote_descriptions |-> << >>,
                remote_candidates |-> << >> ]
  /\ fault = "none"


(* ------------------------ the websocket thread ------------------------ *)
\* WsClient::update_state
update_state(state) == app_state' = state

\* mutant of gen_range: the upper end is taken inclusive
gen_range_inclusive(low, high) ==
  { id \in low..high : id < low + IdSamples \/ id > high - IdSamples }

\* rand gen_range(low, high): low <= id < high, sampled at both ends
gen_range(low, high) ==
  { id \in low..(high - 1) : id < low + IdSamples \/ id >= high - IdSamples }

IdLow == 10
IdHigh == 10000

\* on_open, first statement: update_state(ServerConnected)
on_open ==
  /\ Running /\ channel = "connecting" /\ wsPc = "idle"
  /\ channel' = "open"
  /\ update_state("ServerConnected")
  /\ wsPc' = "open_register"
  /\ UNCHANGED << peer_id, webrtc, outbound, closes, wsMsg, received, our_id,
                  error, enVars, engine, fault >>

\* register_with_server, called by on_open
register_with_server ==
  /\ Running /\ wsPc = "open_register"
  /\ \E id \in gen_range(IdLow, IdHigh) :
       /\ our_id' = id
       /\ outbound' = Append(outbound, HelloText(id))
  /\ app_state' = "ServerRegistering"
  /\ wsPc' = "open_update"
  /\ UNCHANGED << peer_id, webrtc, closes, channel, wsMsg, received, error,
                  enVars, engine, fault >>

\* on_open: update_state(<what register_with_server returned>)
on_open_update ==
  /\ Running /\ wsPc = "open_update"
  /\ update_state("ServerRegistering")
  /\ wsPc' = "idle"
  /\ UNCHANGED << peer_id, webrtc, outbound, closes, channel, wsMsg, received,
                  our_id, error, enVars, engine, fault >>

\* the texts on_message may be called with in this state (the bound on the
\* remote candidates is the only restriction)
Deliverable ==
  { t \in Inbound :
      t.key = "ice" => Len(engine.remote_candidates) < MaxRemoteCandidates }

\* on_message takes a text off the open channel
Takes(t) ==
  /\ Running /\ channel = "open" /\ wsPc = "idle"
  /\ t \in Deliverable
  /\ wsMsg' = t
  /\ received' = received + 1

\* mutant of HelloGuard: the guard is dropped
HelloGuard_dropped(state) == TRUE

\* if app_state != ServerRegistering { panic!(...) }
HelloGuard(state) == state = "ServerRegistering"

\* on_message, msg_text == "HELLO": the guard
on_message_hello ==
  \E t \in Inbound :
    /\ Takes(t) /\ IsHello(t)
    /\ IF HelloGuard(app_state)
         THEN /\ wsPc' = "hello_update"
              /\ UNCHANGED << app_state, peer_id, webrtc, outbound, closes,
                              channel, our_id, error, engine, fault >>
         ELSE /\ Panic("Received HELLO when not registering")
              /\ wsPc' = "idle"
    /\ UNCHANGED enVars

\* on_message, msg_text == "HELLO": update_state(ServerRegistered)
on_message_hello_update ==
  /\ Running /\ wsPc = "hello_update"
  /\ update_state("ServerRegistered")
  /\ wsPc' = "hello_setup"
  /\ UNCHANGED << peer_id, webrtc, outbound, closes, channel, wsMsg, received,
                  our_id, error, enVars, engine, fault >>

\* setup_call, called by on_message for "HELLO"
setup_call ==
  /\ Running /\ wsPc = "hello_setup"
  /\ app_state' = "PeerConnecting"
  /\ outbound' = Append(outbound, SessionText(peer_id))
  /\ wsPc' = "idle"
  /\ UNCHANGED << peer_id, webrtc, closes, channel, wsMsg, received, our_id,
                  error, enVars, engine, fault >>

\* mutant of SessionOkGuard: the guard is dropped
SessionOkGuard_dropped(state) == TRUE

\* if app_state != PeerConnecting { panic!(...) }
SessionOkGuard(state) == state = "PeerConnecting"

\* on_message, msg_text == "SESSION_OK": the guard
on_message_session_ok ==
  \E t \in Inbound :
    /\ Takes(t) /\ IsSessionOk(t)
    /\ IF SessionOkGuard(app_state)
         THEN /\ wsPc' = "session_update"
              /\ UNCHANGED << app_state, peer_id, webrtc, outbound, closes,
                              channel, our_id, error, engine, fault >>
         ELSE /\ Panic("Received SESSION_OK when not calling")
              /\ wsPc' = "idle"
    /\ UNCHANGED enVars

\* on_message, msg_text == "SESSION_OK": update_state(PeerConnected)
on_message_session_ok_update ==
  /\ Running /\ wsPc = "session_update"
  /\ update_state("PeerConnected")
  /\ wsPc' = "session_start"
  /\ UNCHANGED << peer_id, webrtc, outbound, closes, channel, wsMsg, received,
                  our_id, error, enVars, engine, fault >>

\* start_pipeline, called by on_message for "SESSION_OK": the pipeline is
\* built, the three callbacks are connected and the pipeline set to Playing;
\* any of the ? of start_pipeline may return Err and on_message panics
start_pipeline ==
  /\ Running /\ wsPc = "session_start"
  /\ \E ok \in BOOLEAN :
       IF ok
         THEN /\ engine' = [engine EXCEPT !.pipelines = @ + 1,
                                          !.playing = TRUE]
              /\ wsPc' = "session_store"
              /\ UNCHANGED fault
         ELSE /\ engine' = [engine EXCEPT !.pipelines = @ + 1]
              /\ wsPc' = "idle"
              /\ fault' = "Failed to set up webrtc"
  /\ UNCHANGED << app_state, peer_id, webrtc, outbound, closes, channel, wsMsg,
                  received, our_id, error, enVars >>

\* mutant of on_message_session_ok_store: the element start_pipeline
\* returned is dropped
on_message_session_ok_store_dropped ==
  /\ Running /\ wsPc = "session_store"
  /\ wsPc' = "idle"
  /\ UNCHANGED << app_state, peer_id, webrtc, outbound, closes, channel,
                  wsMsg, received, our_id, error, enVars, engine, fault >>

\* on_message, msg_text == "SESSION_OK": self.webrtc = Some(webrtc)
on_message_session_ok_store ==
  /\ Running /\ wsPc = "session_store"
  /\ webrtc' = "Some"
  /\ wsPc' = "idle"
  /\ UNCHANGED << app_state, peer_id, outbound, closes, channel, wsMsg,
                  received, our_id, error, enVars, engine, fault >>

\* mutant of ErrorState: PeerConnected takes the error of the phase before
ErrorState_slip(state) ==
  CASE state = "ServerConnecting"       -> "ServerConnectionError"
    [] state = "ServerRegistering"      -> "ServerRegisteringError"
    [] state = "PeerConnecting"         -> "PeerConnectionError"
    [] state = "PeerConnected"          -> "PeerConnectionError"
    [] state = "PeerCallNegotiating"    -> "PeerCallError"
    [] state = "ServerConnectionError"  -> "ServerConnectionError"
    [] state = "ServerRegisteringError" -> "ServerRegisteringError"
    [] state = "PeerConnectionError"    -> "PeerConnectionError"
    [] state = "PeerCallError"          -> "PeerCallError"
    [] OTHER                            -> "AppStateErr"

\* on_message, ERROR branch: the match on app_state
ErrorState(state) ==
  CASE state = "ServerConnecting"       -> "ServerConnectionError"
    [] state = "ServerRegistering"      -> "ServerRegisteringError"
    [] state = "PeerConnecting"         -> "PeerConnectionError"
    [] state = "PeerConnected"          -> "PeerCallError"
    [] state = "PeerCallNegotiating"    -> "PeerCallError"
    [] state = "ServerConnectionError"  -> "ServerConnectionError"
    [] state = "ServerRegisteringError" -> "ServerRegisteringError"
    [] state = "PeerConnectionError"    -> "PeerConnectionError"
    [] state = "PeerCallError"          -> "PeerCallError"
    [] state = "AppStateErr"            -> "AppStateErr"
    [] state = "ServerConnected"        -> "AppStateErr"
    [] state = "ServerRegistered"       -> "AppStateErr"
    [] state = "ServerClosed"           -> "AppStateErr"
    [] state = "PeerCallStarted"        -> "AppStateErr"

\* on_message, msg_text.starts_with("ERROR"): let error = match app_state
on_message_error ==
  \E t \in Inbound :
    /\ Takes(t) /\ ~IsHello(t) /\ ~IsSessionOk(t) /\ IsError(t)
    /\ error' = ErrorState(app_state)
    /\ wsPc' = "error_close"
    /\ UNCHANGED << app_state, peer_id, webrtc, outbound, closes, channel,
                    our_id, enVars, engine, fault >>

\* on_message, ERROR branch: ws_sender.close(Normal), then panic!
on_message_error_close ==
  /\ Running /\ wsPc = "error_close"
  /\ closes' = closes + 1
  /\ fault' = "Got websocket error"
  /\ wsPc' = "idle"
  /\ UNCHANGED << app_state, peer_id, webrtc, outbound, channel, wsMsg,
                  received, our_id, error, enVars, engine >>

\* on_message: serde_json::from_str(&msg_text).unwrap() is Err
on_message_undecodable ==
  \E t \in Inbound :
    /\ Takes(t) /\ ~IsHello(t) /\ ~IsSessionOk(t) /\ ~IsError(t)
    /\ ~Decodes(t)
    /\ Panic("from_str")
    /\ wsPc' = "idle"
    /\ UNCHANGED enVars

\* mutant of AnswerGuard: the threshold of the send guards is used
AnswerGuard_threshold(state) == ~StateLt(state, "PeerCallNegotiating")

\* assert_eq!(app_state, PeerCallNegotiating)
AnswerGuard(state) == state = "PeerCallNegotiating"

\* on_message, JsonMsg::Sdp: the assertion on app_state
on_message_sdp ==
  \E t \in Inbound :
    /\ Takes(t) /\ ~IsHello(t) /\ ~IsSessionOk(t) /\ ~IsError(t)
    /\ Decodes(t) /\ t.key = "sdp"
    /\ IF AnswerGuard(app_state)
         THEN /\ wsPc' = "sdp_apply"
              /\ UNCHANGED << app_state, peer_id, webrtc, outbound, closes,
                              channel, our_id, error, engine, fault >>
         ELSE /\ Panic("assert app_state == PeerCallNegotiating")
              /\ wsPc' = "idle"
    /\ UNCHANGED enVars

\* mutant of on_message_sdp_apply: the type of the description is not
\* asserted
on_message_sdp_apply_any_type ==
  /\ Running /\ wsPc = "sdp_apply"
  /\ IF ~ParseBuffer(wsMsg.sdp)
       THEN Panic("parse_buffer") /\ wsPc' = "idle"
     ELSE IF webrtc = "None"
       THEN Panic("webrtc is None") /\ wsPc' = "idle"
     ELSE /\ engine' = [engine EXCEPT !.remote_descriptions =
                                         Append(@, wsMsg.sdp)]
          /\ wsPc' = "sdp_update"
          /\ UNCHANGED << app_state, peer_id, webrtc, outbound, closes,
                          channel, our_id, error, fault >>
  /\ UNCHANGED << wsMsg, received, enVars >>

\* on_message, JsonMsg::Sdp: assert_eq!(type_, "answer"), parse_buffer,
\* self.webrtc.as_ref().unwrap().emit("set-remote-description")
on_message_sdp_apply ==
  /\ Running /\ wsPc = "sdp_apply"
  /\ IF wsMsg.type # "answer"
       THEN Panic("assert type == answer") /\ wsPc' = "idle"
     ELSE IF ~ParseBuffer(wsMsg.sdp)
       THEN Panic("parse_buffer") /\ wsPc' = "idle"
     ELSE IF webrtc = "None"
       THEN Panic("webrtc is None") /\ wsPc' = "idle"
     ELSE /\ engine' = [engine EXCEPT !.remote_descriptions =
                                         Append(@, wsMsg.sdp)]
          /\ wsPc' = "sdp_update"
          /\ UNCHANGED << app_state, peer_id, webrtc, outbound, closes,
                          channel, our_id, error, fault >>
  /\ UNCHANGED << wsMsg, received, enVars >>

\* on_message, JsonMsg::Sdp: update_state(PeerCallStarted)
on_message_sdp_update ==
  /\ Running /\ wsPc = "sdp_update"
  /\ update_state("PeerCallStarted")
  /\ wsPc' = "idle"
  /\ UNCHANGED << peer_id, webrtc, outbound, closes, channel, wsMsg, received,
                  our_id, error, enVars, engine, fault >>

\* mutant of on_message_ice: a candidate is refused below
\* PeerCallNegotiating, as the candidates that are sent are
on_message_ice_guarded ==
  \E t \in Inbound :
    /\ Takes(t) /\ ~IsHello(t) /\ ~IsSessionOk(t) /\ ~IsError(t)
    /\ Decodes(t) /\ t.key = "ice"
    /\ IF webrtc = "None" \/ StateLt(app_state, "PeerCallNegotiating")
         THEN Panic("webrtc is None")
         ELSE /\ engine' = [engine EXCEPT !.remote_candidates =
                               Append(@, <<t.candidate, t.sdpMLineIndex>>)]
              /\ UNCHANGED << app_state, peer_id, webrtc, outbound, closes,
                              channel, our_id, error, fault >>
    /\ wsPc' = "idle"
    /\ UNCHANGED enVars

\* on_message, JsonMsg::Ice: self.webrtc.as_ref().unwrap()
\*   .emit("add-ice-candidate", &[&sdp_mline_index, &candidate])
on_message_ice ==
  \E t \in Inbound :
    /\ Takes(t) /\ ~IsHello(t) /\ ~IsSessionOk(t) /\ ~IsError(t)
    /\ Decodes(t) /\ t.key = "ice"
    /\ IF webrtc = "None"
         THEN Panic("webrtc is None")
         ELSE /\ engine' = [engine EXCEPT !.remote_candidates =
                               Append(@, <<t.candidate, t.sdpMLineIndex>>)]
              /\ UNCHANGED << app_state, peer_id, webrtc, outbound, closes,
                              channel, our_id, error, fault >>
    /\ wsPc' = "idle"
    /\ UNCHANGED enVars

\* mutant of on_close: a call that has started is left in its state
on_close_keeps_call ==
  /\ Running /\ channel = "open" /\ wsPc = "idle"
  /\ channel' = "closed"
  /\ app_state' = IF app_state = "PeerCallStarted"
                    THEN app_state ELSE "ServerClosed"
  /\ UNCHANGED << peer_id, webrtc, outbound, closes, wsVars, our_id, error,
                  enVars, engine, fault >>

\* on_close: app_state = ServerClosed
on_close ==
  /\ Running /\ channel = "open" /\ wsPc = "idle"
  /\ channel' = "closed"
  /\ app_state' = "ServerClosed"
  /\ UNCHANGED << peer_id, webrtc, outbound, closes, wsVars, our_id, error,
                  enVars, engine, fault >>


(* --------------------- the media engine's thread ---------------------- *)
\* on_negotiation_needed: app_state = PeerCallNegotiating, whatever it was,
\* then emit("create-offer") with a promise that calls on_offer_created
on_negotiation_needed ==
  /\ Running /\ engine.playing /\ enPc = "idle"
  /\ engine.negotiations < MaxNegotiations
  /\ app_state' = "PeerCallNegotiating"
  /\ engine' = [engine EXCEPT !.negotiations = @ + 1,
                              !.create_offers = @ + 1,
                              !.promises = @ + 1]
  /\ UNCHANGED << peer_id, webrtc, outbound, closes, channel, wsVars, our_id,
                  error, enVars, fault >>

\* assert_eq!(app_state, PeerCallNegotiating)
OfferCreatedGuard(state) == state = "PeerCallNegotiating"

\* on_offer_created, the promise's change function: the assertion on
\* app_state, then the offer of the reply is set as the local description
on_offer_created ==
  /\ Running /\ enPc = "idle"
  /\ engine.promises > 0
  /\ \E offer \in OfferSdps :
       IF OfferCreatedGuard(app_state)
         THEN /\ enOffer' = offer
              /\ enPc' = "send_sdp_offer"
              /\ engine' = [engine EXCEPT !.promises = @ - 1,
                                          !.local_descriptions =
                                             Append(@, offer)]
              /\ UNCHANGED fault
         ELSE /\ enOffer' = offer
              /\ enPc' = "idle"
              /\ engine' = [engine EXCEPT !.promises = @ - 1]
              /\ fault' = "assert app_state == PeerCallNegotiating (offer)"
  /\ UNCHANGED << app_state, peer_id, webrtc, outbound, closes, channel,
                  wsVars, our_id, error >>

\* mutant of OfferSendGuard: <= instead of <
OfferSendGuard_strict(state) == StateLt("PeerCallNegotiating", state)

\* if app_state < PeerCallNegotiating { panic!("Can't send offer ...") }
OfferSendGuard(state) == ~StateLt(state, "PeerCallNegotiating")

\* send_sdp_offer, called by on_offer_created
send_sdp_offer ==
  /\ Running /\ enPc = "send_sdp_offer"
  /\ IF OfferSendGuard(app_state)
       THEN /\ outbound' = Append(outbound, SdpText("offer", enOffer))
            /\ UNCHANGED << app_state, peer_id, webrtc, closes, channel,
                            our_id, error, engine, fault >>
       ELSE Panic("Can't send offer, not in call")
  /\ enPc' = "idle"
  /\ UNCHANGED << wsVars, enOffer >>

\* mutant of IceSendGuard: equality instead of the threshold
IceSendGuard_equal(state) == state = "PeerCallNegotiating"

\* if app_state < PeerCallNegotiating { panic!("Can't send ICE ...") }
IceSendGuard(state) == ~StateLt(state, "PeerCallNegotiating")

\* send_ice_candidate_message, the on-ice-candidate callback
send_ice_candidate_message ==
  /\ Running /\ engine.playing /\ enPc = "idle"
  /\ engine.local_candidates < MaxLocalCandidates
  /\ \E c \in LocalCandidates :
       IF IceSendGuard(app_state)
         THEN /\ outbound' = Append(outbound, IceText(c[1], c[2]))
              /\ UNCHANGED fault
         ELSE /\ fault' = "Can't send ICE, not in call"
              /\ UNCHANGED outbound
  /\ engine' = [engine EXCEPT !.local_candidates = @ + 1]
  /\ UNCHANGED << app_state, peer_id, webrtc, closes, channel, wsVars, our_id,
                  error, enVars >>

(* --------------------------- specification ---------------------------- *)
Next ==
  \/ on_open
  \/ register_with_server
  \/ on_open_update
  \/ on_message_hello
  \/ on_message_hello_update
  \/ setup_call
  \/ on_message_session_ok
  \/ on_message_session_ok_update
  \/ start_pipeline
  \/ on_message_session_ok_store
  \/ on_message_error
  \/ on_message_error_close
  \/ on_message_undecodable
  \/ on_message_sdp
  \/ on_message_sdp_apply
  \/ on_message_sdp_update
  \/ on_message_ice
  \/ on_close
  \/ on_negotiation_needed
  \/ on_offer_created
  \/ send_sdp_offer
  \/ send_ice_candidate_message

Spec == Init /\ [][Next]_vars

(* ---------------- the call with a cooperating far end ----------------- *)
\* The run of C17: the channel stays open, the server sends no ERROR text
\* and nothing malformed, it answers the registration with "HELLO" and the
\* session request with "SESSION_OK", the pipeline starts, and the peer
\* answers each offer with an answer whose SDP parses.  Candidates, local
\* and remote, come at any moment.

\* the registration is out and the server's "HELLO" is still to come
HelloDue ==
  /\ Len(outbound) = 1 /\ app_state = "ServerRegistering"

\* the session request is out and the server's "SESSION_OK" is still to come
SessionOkDue ==
  /\ \E i \in 1..Len(outbound) : outbound[i] = SessionText(peer_id)
  /\ app_state = "PeerConnecting"

\* the offers on the channel
OffersSent == { i \in 1..Len(outbound) : outbound[i].key = "sdp" }

\* an offer is out that the peer has not answered yet
AnswerDue == Cardinality(OffersSent) > Len(engine.remote_descriptions)

\* on_message called with the server's "HELLO"
server_hello == HelloDue /\ on_message_hello

\* on_message called with the server's "SESSION_OK"
server_session_ok == SessionOkDue /\ on_message_session_ok

\* start_pipeline returns Ok
pipeline_started == start_pipeline /\ fault' = "none"

\* on_message called with the peer's answer to an offer
peer_answer ==
  /\ AnswerDue /\ on_message_sdp
  /\ wsMsg'.type = "answer" /\ ParseBuffer(wsMsg'.sdp)

\* the first negotiation-needed event of the pipeline
first_negotiation_needed == engine.negotiations = 0 /\ on_negotiation_needed

LiveNext ==
  \/ on_open
  \/ register_with_server
  \/ on_open_update
  \/ server_hello
  \/ on_message_hello_update
  \/ setup_call
  \/ server_session_ok
  \/ on_message_session_ok_update
  \/ pipeline_started
  \/ on_message_session_ok_store
  \/ peer_answer
  \/ on_message_sdp_apply
  \/ on_message_sdp_update
  \/ on_message_ice
  \/ on_negotiation_needed
  \/ on_offer_created
  \/ send_sdp_offer
  \/ send_ice_candidate_message

\* every handler that can run does run, the far end sends the replies that
\* are due, the pipeline emits its first negotiation-needed and completes
\* the offers it was asked for; candidates are not forced
Fairness ==
  /\ WF_vars(on_open)
  /\ WF_vars(register_with_server)
  /\ WF_vars(on_open_update)
  /\ WF_vars(server_hello)
  /\ WF_vars(on_message_hello_update)
  /\ WF_vars(setup_call)
  /\ WF_vars(server_session_ok)
  /\ WF_vars(on_message_session_ok_update)
  /\ WF_vars(pipeline_started)
  /\ WF_vars(on_message_session_ok_store)
  /\ WF_vars(peer_answer)
  /\ WF_vars(on_message_sdp_apply)
  /\ WF_vars(on_message_sdp_update)
  /\ WF_vars(first_negotiation_needed)
  /\ WF_vars(on_offer_created)
  /\ WF_vars(send_sdp_offer)

LiveSpec == Init /\ [][LiveNext]_vars /\ Fairness

TypeOK ==
  /\ app_state \in AppState
  /\ peer_id \in PeerIds
  /\ webrtc \in {"None", "Some"}
  /\ channel \in {"connecting", "open", "closed"}
  /\ closes \in 0..1
  /\ engine.promises \in 0..MaxNegotiations


(* ------------------------------- claims ------------------------------- *)
\* the websocket thread takes text t in this step
TakesStep(t) == wsPc = "idle" /\ received' = received + 1 /\ wsMsg' = t

\* the websocket thread moves in this step, from position pc
WsStepFrom(pc) == wsPc = pc /\ wsPc' # pc

IsAnswer(t) == t.key = "sdp" /\ t.type = "answer"

\* C1 as stated: an inbound "answer" is accepted if and only if app_state is
\* PeerCallNegotiating when on_message handles it: then the remote
\* description is handed to the media engine and the state becomes
\* PeerCallStarted; in every other state the handler faults, applies no
\* remote description and does not change the state.
C1_AnswerAcceptedIffNegotiating ==
  [][ /\ \A t \in Inbound :
           (TakesStep(t) /\ IsAnswer(t)) =>
             IF app_state = "PeerCallNegotiating"
               THEN fault' = "none" /\ wsPc' = "sdp_apply"
               ELSE /\ fault' # "none"
                    /\ engine' = engine
                    /\ app_state' = app_state
      /\ (WsStepFrom("sdp_apply") /\ IsAnswer(wsMsg)) =>
            /\ fault' = "none"
            /\ engine'.remote_descriptions =
                 Append(engine.remote_descriptions, wsMsg.sdp)
            /\ wsPc' = "sdp_update"
      /\ WsStepFrom("sdp_update") =>
            app_state' = "PeerCallStarted" /\ fault' = "none"
      /\ engine'.remote_descriptions # engine.remote_descriptions =>
            WsStepFrom("sdp_apply")
      /\ (app_state' = "PeerCallStarted" /\ app_state # "PeerCallStarted") =>
            WsStepFrom("sdp_update")
    ]_vars

\* C1 amended: an inbound "answer" whose SDP text parse_buffer accepts is
\* accepted if and only if app_state is PeerCallNegotiating when on_message
\* handles it; an answer whose SDP text does not parse faults after the
\* guard, with no remote description applied; in every other state the
\* handler faults, applies no remote description and leaves the state alone.
C1_ParsedAnswerAcceptedIffNegotiating ==
  [][ /\ \A t \in Inbound :
           (TakesStep(t) /\ IsAnswer(t)) =>
             IF app_state = "PeerCallNegotiating"
               THEN fault' = "none" /\ wsPc' = "sdp_apply"
               ELSE /\ fault' # "none"
                    /\ engine' = engine
                    /\ app_state' = app_state
      /\ (WsStepFrom("sdp_apply") /\ IsAnswer(wsMsg)) =>
            IF wsMsg.sdp # ""
              THEN /\ fault' = "none"
                   /\ engine'.remote_descriptions =
                        Append(engine.remote_descriptions, wsMsg.sdp)
                   /\ wsPc' = "sdp_update"
              ELSE /\ fault' # "none"
                   /\ engine' = engine
                   /\ app_state' = app_state
      /\ WsStepFrom("sdp_update") =>
            app_state' = "PeerCallStarted" /\ fault' = "none"
      /\ engine'.remote_descriptions # engine.remote_descriptions =>
            WsStepFrom("sdp_apply")
      /\ (app_state' = "PeerCallStarted" /\ app_state # "PeerCallStarted") =>
            WsStepFrom("sdp_update")
    ]_vars

\* C1 witness: an answer taken in PeerCallNegotiating has been applied and
\* the state is PeerCallStarted
C1_Witness ==
  /\ fault = "none" /\ wsPc = "idle" /\ IsAnswer(wsMsg)
  /\ app_state = "PeerCallStarted"
  /\ engine.remote_descriptions = << wsMsg.sdp >>

\* the states at or above PeerCallNegotiating in the declared order
AtOrAboveNegotiating ==
  {"PeerCallNegotiating", "PeerCallStarted", "PeerCallError"}

\* C2: send_sdp_offer and send_ice_candidate_message put their text on the
\* channel if and only if app_state >= PeerCallNegotiating in the declared
\* order of AppState; below it they fault and nothing is sent.
C2_SendIffAtOrAboveNegotiating ==
  [][ /\ (enPc = "send_sdp_offer" /\ enPc' = "idle") =>
            IF app_state \in AtOrAboveNegotiating
              THEN /\ outbound' = Append(outbound, SdpText("offer", enOffer))
                   /\ fault' = "none"
              ELSE outbound' = outbound /\ fault' # "none"
      /\ engine'.local_candidates # engine.local_candidates =>
            IF app_state \in AtOrAboveNegotiating
              THEN /\ Len(outbound') = Len(outbound) + 1
                   /\ outbound'[Len(outbound')].key = "ice"
                   /\ SubSeq(outbound', 1, Len(outbound)) = outbound
                   /\ fault' = "none"
              ELSE outbound' = outbound /\ fault' # "none"
    ]_vars

\* C2 witness: an offer and a candidate were sent at or above
\* PeerCallNegotiating and a later send_sdp_offer below it has faulted
C2_Witness ==
  /\ fault = "Can't send offer, not in call"
  /\ StateLt(app_state, "PeerCallNegotiating")
  /\ \E i, j \in 1..Len(outbound) :
        outbound[i].key = "sdp" /\ outbound[j].key = "ice"

\* the happy path of the call state
HappyPath ==
  << "ServerConnecting", "ServerConnected", "ServerRegistering",
     "ServerRegistered", "PeerConnecting", "PeerConnected",
     "PeerCallNegotiating", "PeerCallStarted" >>

\* C3: in a run without a channel close, a server ERROR text or a fault the
\* values app_state takes are a prefix of the happy path: every change of
\* app_state goes from one phase of the path to the next one.
C3_HappyPathInOrder ==
  [][ (fault' = "none" /\ channel' # "closed" /\ error' = "none"
         /\ app_state' # app_state) =>
        \E i \in 1..(Len(HappyPath) - 1) :
           app_state = HappyPath[i] /\ app_state' = HappyPath[i + 1]
    ]_vars

\* C4: no candidate text is on the outbound sequence before the offer text.
C4_NoCandidateBeforeOffer ==
  \A i \in 1..Len(outbound) :
     outbound[i].key = "ice" =>
        \E j \in 1..(i - 1) :
           outbound[j].key = "sdp" /\ outbound[j].type = "offer"

\* C5: an ERROR text handled while app_state is PeerConnecting makes
\* app_state PeerConnectionError and calls ws_sender.close exactly once.
C5_ErrorWhilePeerConnecting ==
  [][ (WsStepFrom("error_close") /\ app_state = "PeerConnecting") =>
        (app_state' = "PeerConnectionError" /\ closes' = 1)
    ]_vars


\* the media engine emits negotiation-needed in this step
NegotiationNeededStep == engine'.negotiations = engine.negotiations + 1

\* C6: a negotiation-needed event is acted on only in PeerConnected: then
\* the state becomes PeerCallNegotiating and one create-offer is requested;
\* in any other state it is a fault that changes no state and requests no
\* offer, so create-offer is requested at most once in a call.
C6_NegotiationNeededOnlyWhenConnected ==
  [][ /\ NegotiationNeededStep =>
           IF app_state = "PeerConnected"
             THEN /\ app_state' = "PeerCallNegotiating"
                  /\ engine'.create_offers = engine.create_offers + 1
                  /\ fault' = "none"
             ELSE /\ fault' # "none"
                  /\ app_state' = app_state
                  /\ engine'.create_offers = engine.create_offers
      /\ engine'.create_offers <= 1
    ]_vars

\* the promise of a create-offer calls on_offer_created in this step
OfferCreatedStep == engine'.promises = engine.promises - 1

\* C7: when on_offer_created fires in PeerCallNegotiating the offer is set
\* as the local description, exactly one offer text carrying its SDP is
\* sent and app_state is unchanged; in any other state it faults before a
\* local description is set or a text is sent.
C7_OfferCreatedSendsOffer ==
  [][ /\ OfferCreatedStep =>
           IF app_state = "PeerCallNegotiating"
             THEN /\ fault' = "none"
                  /\ engine'.local_descriptions =
                       Append(engine.local_descriptions, enOffer')
                  /\ enPc' = "send_sdp_offer"
             ELSE /\ fault' # "none"
                  /\ engine'.local_descriptions = engine.local_descriptions
                  /\ outbound' = outbound
      /\ (enPc = "send_sdp_offer" /\ enPc' = "idle") =>
            /\ fault' = "none"
            /\ outbound' = Append(outbound, SdpText("offer", enOffer))
            /\ app_state' = "PeerCallNegotiating"
    ]_vars

\* the texts of the outbound sequence that begin with the piece head
SentWith(head) ==
  { i \in 1..Len(outbound) :
      Len(outbound[i].lit) >= 1 /\ outbound[i].lit[1] = head }

\* C8: "HELLO" is accepted only in ServerRegistering: then exactly one
\* "SESSION <peer_id>" is sent and the state ends as PeerConnecting, by way
\* of ServerRegistered; in every other state the handler faults, sends
\* nothing and makes no transition.
C8_HelloOnlyWhenRegistering ==
  /\ [](Cardinality(SentWith("SESSION ")) <= 1)
  /\ [][ /\ \A t \in Inbound :
              (TakesStep(t) /\ IsHello(t)) =>
                IF app_state = "ServerRegistering"
                  THEN /\ fault' = "none" /\ wsPc' = "hello_update"
                       /\ outbound' = outbound
                  ELSE /\ fault' # "none"
                       /\ outbound' = outbound
                       /\ app_state' = app_state
         /\ WsStepFrom("hello_update") =>
              /\ app_state = "ServerRegistering"
              /\ app_state' = "ServerRegistered"
              /\ outbound' = outbound
              /\ wsPc' = "hello_setup"
         /\ WsStepFrom("hello_setup") =>
              /\ app_state = "ServerRegistered"
              /\ app_state' = "PeerConnecting"
              /\ outbound' = Append(outbound,
                                    Literal(<<"SESSION ", peer_id>>))
              /\ wsPc' = "idle" /\ fault' = "none"
         /\ SentWith("SESSION ")' # SentWith("SESSION ") =>
              WsStepFrom("hello_setup")
       ]_vars

\* C8 witness: "HELLO" was accepted in ServerRegistering, the session
\* request is out and the state is PeerConnecting
C8_Witness ==
  /\ fault = "none" /\ wsPc = "idle" /\ IsHello(wsMsg)
  /\ app_state = "PeerConnecting"
  /\ outbound[Len(outbound)] = Literal(<<"SESSION ", peer_id>>)
  /\ Cardinality(SentWith("SESSION ")) = 1

\* C9: "SESSION_OK" is accepted only in PeerConnecting: then the state
\* becomes PeerConnected and the pipeline is started; in every other state
\* the handler faults without starting it, so the pipeline is started at
\* most once whatever texts arrive.
C9_SessionOkOnlyWhenPeerConnecting ==
  /\ [](engine.pipelines <= 1)
  /\ [][ /\ \A t \in Inbound :
              (TakesStep(t) /\ IsSessionOk(t)) =>
                IF app_state = "PeerConnecting"
                  THEN /\ fault' = "none" /\ wsPc' = "session_update"
                       /\ engine' = engine
                  ELSE /\ fault' # "none"
                       /\ engine' = engine
                       /\ app_state' = app_state
         /\ WsStepFrom("session_update") =>
              /\ app_state = "PeerConnecting"
              /\ app_state' = "PeerConnected"
              /\ engine' = engine
              /\ wsPc' = "session_start"
         /\ WsStepFrom("session_start") =>
              /\ app_state = "PeerConnected"
              /\ engine'.pipelines = engine.pipelines + 1
         /\ engine'.pipelines # engine.pipelines =>
              WsStepFrom("session_start")
       ]_vars

\* C9 witness: "SESSION_OK" was accepted in PeerConnecting, the pipeline is
\* started and the handler has returned in PeerConnected
C9_Witness ==
  /\ fault = "none" /\ wsPc = "idle" /\ IsSessionOk(wsMsg)
  /\ app_state = "PeerConnected"
  /\ engine.pipelines = 1 /\ engine.playing /\ webrtc = "Some"

\* C10: on_open in ServerConnecting goes through ServerConnected, sends
\* exactly one "HELLO <id>" with 10 <= id < 10000 and returns in
\* ServerRegistering.
C10_OpenRegisters ==
  /\ [](Cardinality(SentWith("HELLO ")) <= 1)
  /\ [][ /\ (channel = "connecting" /\ channel' = "open") =>
              /\ app_state = "ServerConnecting"
              /\ app_state' = "ServerConnected"
              /\ outbound' = outbound
              /\ wsPc' = "open_register"
         /\ WsStepFrom("open_register") =>
              /\ app_state = "ServerConnected"
              /\ our_id' >= 10 /\ our_id' < 10000
              /\ outbound' = Append(outbound,
                                    Literal(<<"HELLO ", ToString(our_id')>>))
              /\ wsPc' = "open_update"
         /\ WsStepFrom("open_update") =>
              /\ app_state' = "ServerRegistering"
              /\ outbound' = outbound
              /\ wsPc' = "idle" /\ fault' = "none"
         /\ SentWith("HELLO ")' # SentWith("HELLO ") =>
              WsStepFrom("open_register")
       ]_vars

\* C10 witness: on_open has returned in ServerRegistering with the one
\* registration text out, carrying the largest id of the range
C10_Witness ==
  /\ fault = "none" /\ wsPc = "idle" /\ channel = "open"
  /\ app_state = "ServerRegistering"
  /\ our_id = 9999
  /\ outbound = << Literal(<<"HELLO ", "9999">>) >>

\* C11 as stated: an inbound candidate text is accepted without a guard in
\* every reachable state, also before the media engine is started: it never
\* faults, its candidate and sdpMLineIndex are forwarded to the media engine
\* and app_state is left alone.
C11_CandidateAlwaysForwarded ==
  [][ \A t \in Inbound :
        (TakesStep(t) /\ t.key = "ice") =>
           /\ fault' = "none"
           /\ engine'.remote_candidates =
                Append(engine.remote_candidates,
                       <<t.candidate, t.sdpMLineIndex>>)
           /\ app_state' = app_state
    ]_vars

\* C11 amended: an inbound candidate text is accepted without a guard on
\* app_state in every reachable state in which WsClient.webrtc is Some: it
\* does not fault, its candidate and sdpMLineIndex are forwarded to the
\* media engine and app_state is left alone; while WsClient.webrtc is None
\* the handler faults and forwards nothing.
C11_CandidateForwardedOnceEngineHeld ==
  [][ /\ \A t \in Inbound :
           (TakesStep(t) /\ t.key = "ice") =>
              IF webrtc = "Some"
                THEN /\ fault' = "none"
                     /\ engine'.remote_candidates =
                          Append(engine.remote_candidates,
                                 <<t.candidate, t.sdpMLineIndex>>)
                     /\ app_state' = app_state
                     /\ wsPc' = "idle"
                ELSE /\ fault' # "none"
                     /\ engine' = engine
                     /\ app_state' = app_state
      /\ engine'.remote_candidates # engine.remote_candidates =>
           \E t \in Inbound : TakesStep(t) /\ t.key = "ice"
    ]_vars

\* C11 witness: a candidate text was forwarded below PeerCallNegotiating
C11_Witness ==
  /\ fault = "none" /\ wsMsg.key = "ice"
  /\ app_state = "PeerConnected"
  /\ engine.remote_candidates = << <<wsMsg.candidate, wsMsg.sdpMLineIndex>> >>

\* the websocket closes in this step
CloseStep == channel = "open" /\ channel' = "closed"

\* C12: on_close sets app_state to ServerClosed from every reachable state,
\* with no guard and no fault, and leaves peer_id alone: whenever the open
\* channel's thread is between two handlers on_close can run, and when it
\* runs the state is ServerClosed afterwards.
C12_CloseSetsServerClosed ==
  /\ []((Running /\ channel = "open" /\ wsPc = "idle") => ENABLED on_close)
  /\ [][ CloseStep =>
           /\ app_state' = "ServerClosed"
           /\ fault' = "none"
           /\ peer_id' = peer_id
       ]_vars

\* C12 witness: the channel was closed after an answer had been applied
\* (from PeerCallStarted or PeerCallNegotiating) and the state is
\* ServerClosed
C12_Witness ==
  /\ channel = "closed" /\ fault = "none"
  /\ app_state = "ServerClosed"
  /\ Len(engine.remote_descriptions) >= 1

\* C13: ServerClosed is terminal: once on_close has set it, no later text
\* and no later media engine event changes app_state, and no fault follows
\* the close.
C13_ServerClosedIsTerminal ==
  [][ channel = "closed" =>
        (app_state' = "ServerClosed" /\ fault' = "none")
    ]_vars

\* a text that is neither "HELLO" nor "SESSION_OK" nor ERROR-prefixed
Negotiation(t) == t.lit # <<"HELLO">> /\ t.lit # <<"SESSION_OK">> /\ ~IsError(t)

\* C14: in every state a text that is not "HELLO", not "SESSION_OK", not
\* ERROR-prefixed and is either none of the two shapes (ice, sdp) or an sdp
\* whose type is not "answer" raises a fault: on_message gives the media
\* engine no command for it and does not change app_state.
C14_OtherTextsFault ==
  [][ /\ \A t \in Inbound :
           (TakesStep(t) /\ Negotiation(t) /\ t.key \notin {"ice", "sdp"}) =>
              /\ fault' # "none"
              /\ engine' = engine
              /\ app_state' = app_state
      /\ \A t \in Inbound :
           (TakesStep(t) /\ t.key = "sdp" /\ t.type # "answer") =>
              /\ engine' = engine
              /\ app_state' = app_state
              /\ fault' # "none" \/ wsPc' = "sdp_apply"
      /\ (WsStepFrom("sdp_apply") /\ wsMsg.type # "answer") =>
              /\ fault' # "none"
              /\ engine' = engine
              /\ app_state' = app_state
    ]_vars

\* C14 witness: an sdp text of type "offer" passed the state assertion and
\* faulted on its type, with no remote description applied
C14_Witness ==
  /\ fault = "assert type == answer"
  /\ wsMsg.key = "sdp" /\ wsMsg.type = "offer"
  /\ app_state = "PeerCallNegotiating"
  /\ engine.remote_descriptions = << >>

\* the positions of the websocket thread between the guard of a handler
\* ("HELLO", "SESSION_OK", answer) and its guarded transition
WsGuardPassed == {"hello_update", "session_update", "sdp_apply", "sdp_update"}

\* C15: a guard and the transition or send it protects are one atomic step
\* for the other thread: while a handler is between reading app_state for
\* its guard and its guarded transition or send, no step of the other
\* thread (on_close, a media engine callback, a websocket handler) changes
\* app_state.
C15_GuardAndActionAtomic ==
  [][ /\ (wsPc \in WsGuardPassed /\ wsPc' = wsPc) => app_state' = app_state
      /\ (enPc = "send_sdp_offer" /\ enPc' = enPc) => app_state' = app_state
    ]_vars

\* the error state of each call state, as C16 gives it
C16_Mapping ==
  [ ServerConnecting       |-> "ServerConnectionError",
    ServerRegistering      |-> "ServerRegisteringError",
    PeerConnecting         |-> "PeerConnectionError",
    PeerConnected          |-> "PeerCallError",
    PeerCallNegotiating    |-> "PeerCallError",
    ServerConnectionError  |-> "ServerConnectionError",
    ServerRegisteringError |-> "ServerRegisteringError",
    PeerConnectionError    |-> "PeerConnectionError",
    PeerCallError          |-> "PeerCallError",
    AppStateErr            |-> "AppStateErr",
    ServerConnected        |-> "AppStateErr",
    ServerRegistered       |-> "AppStateErr",
    ServerClosed           |-> "AppStateErr",
    PeerCallStarted        |-> "AppStateErr" ]

\* C16: an ERROR-prefixed text is accepted in every state without a guard;
\* the error state computed for it is the one of C16_Mapping; the channel
\* is then closed and a fault raised.
C16_ErrorMapping ==
  /\ [](\A s \in AppState : ErrorState(s) = C16_Mapping[s])
  /\ [][ /\ \A t \in Inbound :
              (TakesStep(t) /\ IsError(t)) =>
                 /\ error' = C16_Mapping[app_state]
                 /\ fault' = "none"
                 /\ wsPc' = "error_close"
                 /\ closes' = closes
         /\ WsStepFrom("error_close") =>
              /\ closes' = closes + 1
              /\ fault' # "none"
         /\ closes' # closes => WsStepFrom("error_close")
       ]_vars

\* C16 witness: an ERROR text taken in PeerConnected was mapped to
\* PeerCallError, the channel closed once and the fault raised
C16_Witness ==
  /\ fault = "Got websocket error" /\ IsError(wsMsg)
  /\ app_state = "PeerConnected"
  /\ error = "PeerCallError"
  /\ closes = 1

\* C17 as stated: with a cooperating far end and weak fairness of the
\* handlers app_state eventually is PeerCallStarted, whatever the
\* interleaving of local candidates and inbound candidate texts.
C17_EventuallyStarted == <>(app_state = "PeerCallStarted")

\* a candidate came too early: a local one below PeerCallNegotiating, or
\* an inbound one before WsClient.webrtc is stored
EarlyCandidate ==
  fault \in {"Can't send ICE, not in call", "webrtc is None"}

\* C17 amended: with a cooperating far end and weak fairness of the
\* handlers, in a run where no local candidate is discovered below
\* PeerCallNegotiating and no inbound candidate text arrives before
\* WsClient.webrtc is stored, app_state eventually is PeerCallStarted,
\* whatever the interleaving of the other candidates.
C17_EventuallyStartedUnlessEarlyCandidate ==
  ([]~EarlyCandidate) => <>(app_state = "PeerCallStarted")

\* C17 witness: the call has started with a local candidate sent and an
\* inbound candidate forwarded on the way
C17_Witness ==
  /\ fault = "none"
  /\ app_state = "PeerCallStarted"
  /\ \E i \in 1..Len(outbound) : outbound[i].key = "ice"
  /\ Len(engine.remote_candidates) >= 1

\* C18: after on_close has been handled nothing more is sent on the
\* channel, whatever media engine events fire afterwards.
C18_NothingSentAfterClose ==
  [][ channel = "closed" => outbound' = outbound ]_vars

\* the positions in the outbound sequence of the offers and candidates
NegotiationSent ==
  { i \in 1..Len(outbound) : outbound[i].key \in {"sdp", "ice"} }

\* C19: on the outbound sequence "HELLO <id>" occurs at most once,
\* "SESSION <peer-id>" at most once and only after "HELLO <id>", and no
\* offer or candidate comes before "SESSION <peer-id>".
C19_OutboundOrder ==
  /\ Cardinality(SentWith("HELLO ")) <= 1
  /\ Cardinality(SentWith("SESSION ")) <= 1
  /\ \A i \in SentWith("SESSION ") : \E j \in SentWith("HELLO ") : j < i
  /\ \A i \in NegotiationSent : \E j \in SentWith("SESSION ") : j < i

\* C19 witness: registration, session request, offer and candidate are all
\* on the outbound sequence
C19_Witness ==
  /\ Cardinality(SentWith("HELLO ")) = 1
  /\ Cardinality(SentWith("SESSION ")) = 1
  /\ \E i, j \in NegotiationSent :
        outbound[i].key = "sdp" /\ outbound[j].key = "ice"

\* C20: whenever on_message starts on a text with app_state in
\* {PeerConnected, PeerCallNegotiating, PeerCallStarted}, WsClient.webrtc is
\* Some, so an answer that passed the PeerCallNegotiating assertion never
\* faults on a missing engine.
C20_EngineHeldWhenInCall ==
  /\ (Running /\ wsPc = "idle"
        /\ app_state \in {"PeerConnected", "PeerCallNegotiating",
                          "PeerCallStarted"}) => webrtc = "Some"
  /\ wsPc \in {"sdp_apply", "sdp_update"} => webrtc = "Some"
  /\ wsMsg.key = "sdp" => fault # "webrtc is None"

\* C20 witness: an answer has passed the PeerCallNegotiating assertion and
\* is about to be handed to the engine the handler holds
C20_Witness ==
  /\ fault = "none" /\ wsPc = "sdp_apply" /\ IsAnswer(wsMsg)
  /\ app_state = "PeerCallNegotiating"
  /\ webrtc = "Some"

====
